---- MODULE Spec2Model ----
(***************************************************************************)
(* Model of the filter-expression compiler of meilisearch-cli:             *)
(* ApiQuery::process_filter (src/src/api.rs) and the grammar it parses     *)
(* with (filter.pest, described in spec.md section 4.1).                   *)
(*                                                                         *)
(* Strings are TLA+ strings; Len, SubSeq and \o read and build them.       *)
(* An Option<T> is a sequence: << >> is None and <<v>> is Some(v).         *)
(***************************************************************************)
EXTENDS Integers, Sequences, FiniteSets, TLC

(***************************************************************************)
(* Bounds of the model.                                                    *)
(***************************************************************************)
\* the largest number of terms of a generated multi-term expression
MaxTerms == 3
\* month numbers 1..MaxMonth are generated (13 is no calendar month)
MaxMonth == 13
\* day numbers 1..MaxDay are generated
MaxDay == 31
\* duration amounts 0..MaxAmount are generated
MaxAmount == 12

(***************************************************************************)
(* Characters and numbers.                                                 *)
(***************************************************************************)
Char(s, i) == SubSeq(s, i, i)

DigitChars == "0123456789"

LowerChars == "abcdefghijklmnopqrstuvwxyz"

UpperChars == "ABCDEFGHIJKLMNOPQRSTUVWXYZ"

Contains(alphabet, c) == \E i \in 1..Len(alphabet) : Char(alphabet, i) = c

IsDigit(c) == Contains(DigitChars, c)

IsIdentChar(c) == IsDigit(c) \/ Contains(LowerChars, c) \/ Contains(UpperChars, c) \/ c = "_"

AllDigits(s) == \A i \in 1..Len(s) : IsDigit(Char(s, i))

DigitVal(c) == CHOOSE d \in 0..9 : Char(DigitChars, d + 1) = c

\* str::parse::<i32>() / parse::<u32>() / parse::<i64>() on a string of digits
RECURSIVE parse(_)
parse(s) ==
    IF Len(s) = 0 THEN 0
    ELSE parse(SubSeq(s, 1, Len(s) - 1)) * 10 + DigitVal(Char(s, Len(s)))

RECURSIVE DecNat(_)
DecNat(n) ==
    IF n < 10 THEN Char(DigitChars, n + 1)
    ELSE DecNat(n \div 10) \o Char(DigitChars, (n % 10) + 1)

\* format!("{}", n) of a signed integer
Display(n) == IF n < 0 THEN "-" \o DecNat(0 - n) ELSE DecNat(n)

\* a number written with two digits, as the grammar's MM and DD
Pad2(n) == IF n < 10 THEN "0" \o DecNat(n) ELSE DecNat(n)

\* the words of a string: its maximal runs of non-space characters, in order
RECURSIVE WordsFrom(_, _, _)
WordsFrom(s, i, cur) ==
    IF i > Len(s) THEN (IF cur = "" THEN << >> ELSE <<cur>>)
    ELSE IF Char(s, i) = " "
         THEN (IF cur = "" THEN << >> ELSE <<cur>>) \o WordsFrom(s, i + 1, "")
         ELSE WordsFrom(s, i + 1, cur \o Char(s, i))

Words(s) == WordsFrom(s, 1, "")

(***************************************************************************)
(* The grammar (filter.pest), after spec.md section 4.1.  A parse yields   *)
(* pest Pairs: a rule, the text it matched and its inner Pairs.            *)
(***************************************************************************)
Pair(r, s, in) == [rule |-> r, str |-> s, inner |-> in]

IsNumber(s) == Len(s) > 0 /\ AllDigits(s)

IsYYYY(s) == Len(s) = 4 /\ AllDigits(s)

IsNN(s) == Len(s) = 2 /\ AllDigits(s)

\* year := YYYY
year(w) == IsYYYY(w)

\* year_month := YYYY "-" MM
year_month(w) ==
    /\ Len(w) = 7
    /\ IsYYYY(SubSeq(w, 1, 4))
    /\ Char(w, 5) = "-"
    /\ IsNN(SubSeq(w, 6, 7))

\* year_month_day := YYYY "-" MM "-" DD
year_month_day(w) ==
    /\ Len(w) = 10
    /\ year_month(SubSeq(w, 1, 7))
    /\ Char(w, 8) = "-"
    /\ IsNN(SubSeq(w, 9, 10))

\* date := year_month_day | year_month | year
date(w) == year_month_day(w) \/ year_month(w) \/ year(w)

datePair(w) ==
    Pair("date", w,
         IF year_month_day(w)
         THEN <<Pair("year_month_day", w,
                     <<Pair("yyyy", SubSeq(w, 1, 4), << >>),
                       Pair("mm", SubSeq(w, 6, 7), << >>),
                       Pair("dd", SubSeq(w, 9, 10), << >>)>>)>>
         ELSE IF year_month(w)
         THEN <<Pair("year_month", w,
                     <<Pair("yyyy", SubSeq(w, 1, 4), << >>),
                       Pair("mm", SubSeq(w, 6, 7), << >>)>>)>>
         ELSE <<Pair("year", w, << >>)>>)

\* the duration rule of each unit suffix
unit_suffix ==
    [h |-> "hour_duration", d |-> "day_duration", w |-> "week_duration",
     m |-> "month_duration", y |-> "year_duration"]

\* duration := integer unit_suffix
duration(w) ==
    /\ Len(w) >= 2
    /\ IsNumber(SubSeq(w, 1, Len(w) - 1))
    /\ Char(w, Len(w)) \in DOMAIN unit_suffix

durationPair(w) ==
    Pair("duration", w,
         <<Pair(unit_suffix[Char(w, Len(w))], w,
                <<Pair("number", SubSeq(w, 1, Len(w) - 1), << >>)>>)>>)

\* comparator := ">" | "<"
comparator(c) == c \in {">", "<"}

comparatorPair(c) ==
    Pair("comparator", c, <<Pair(IF c = ">" THEN "gt" ELSE "lt", c, << >>)>>)

identifier(w) == Len(w) > 0 /\ (\A i \in 1..Len(w) : IsIdentChar(Char(w, i)))

\* tag := identifier
tag(w) == identifier(w)

\* not_tag := "!" identifier
not_tag(w) == Len(w) >= 2 /\ Char(w, 1) = "!" /\ identifier(SubSeq(w, 2, Len(w)))

\* operator := "AND" | "OR"
operator(w) == w \in {"AND", "OR"}

operatorPair(w) ==
    Pair("operator", w, <<Pair(IF w = "AND" THEN "and" ELSE "or", w, << >>)>>)

NoMatch == [ok |-> FALSE, pairs |-> << >>]

Match(ps) == [ok |-> TRUE, pairs |-> ps]

\* term := comparator? (date | duration) | tag | not_tag
term(w) ==
    IF Len(w) > 0 /\ comparator(Char(w, 1))
    THEN LET rest == SubSeq(w, 2, Len(w))
         IN  IF date(rest) THEN Match(<<comparatorPair(Char(w, 1)), datePair(rest)>>)
             ELSE IF duration(rest)
                  THEN Match(<<comparatorPair(Char(w, 1)), durationPair(rest)>>)
                  ELSE NoMatch
    ELSE IF date(w) THEN Match(<<datePair(w)>>)
    ELSE IF duration(w) THEN Match(<<durationPair(w)>>)
    ELSE IF tag(w) THEN Match(<<Pair("tag", w, << >>)>>)
    ELSE IF not_tag(w)
         THEN Match(<<Pair("not_tag", w, <<Pair("tag", SubSeq(w, 2, Len(w)), << >>)>>)>>)
         ELSE NoMatch

\* (term operator)* term, over the words of the input from word i on
RECURSIVE terms(_, _)
terms(ws, i) ==
    LET t == term(ws[i])
    IN  IF ~t.ok THEN NoMatch
        ELSE IF i = Len(ws) THEN t
        ELSE IF i + 1 = Len(ws) \/ ~operator(ws[i + 1]) THEN NoMatch
        ELSE LET r == terms(ws, i + 2)
             IN  IF r.ok THEN Match(t.pairs \o <<operatorPair(ws[i + 1])>> \o r.pairs)
                 ELSE NoMatch

\* expression := (term operator)* term EOI
expression(input) ==
    LET ws == Words(input)
    IN  IF Len(ws) = 0 THEN NoMatch
        ELSE LET r == terms(ws, 1)
             IN  IF r.ok THEN Match(<<Pair("expression", input,
                                          r.pairs \o <<Pair("EOI", "", << >>)>>)>>)
                 ELSE NoMatch

\* Filter::parse(Rule::expression, input): Ok(pairs) or Err
Filter_parse(input) == expression(input)

(***************************************************************************)
(* chrono, as process_filter uses it.  A NaiveDate is its day number       *)
(* (days since 1970-01-01); a NaiveDateTime and a DateTime<Utc> are        *)
(* seconds since 1970-01-01T00:00:00Z.                                     *)
(***************************************************************************)
is_leap_year(y) == (y % 4 = 0 /\ y % 100 # 0) \/ y % 400 = 0

ndays_in_month(y, m) ==
    IF m = 2 THEN (IF is_leap_year(y) THEN 29 ELSE 28)
    ELSE IF m \in {4, 6, 9, 11} THEN 30 ELSE 31

\* NaiveDate::from_ymd_opt(y, m, d).is_some(): from_ymd panics when it is not
valid_ymd(y, m, d) == m \in 1..12 /\ d >= 1 /\ d <= ndays_in_month(y, m)

\* NaiveDate::from_ymd(y, m, d), for a valid date: days of the proleptic
\* Gregorian calendar, counted in 400-year cycles that start on 1 March
from_ymd(y, m, d) ==
    LET yy  == IF m <= 2 THEN y - 1 ELSE y
        era == yy \div 400
        yoe == yy - era * 400
        mp  == (m + 9) % 12
        doy == (153 * mp + 2) \div 5 + d - 1
        doe == yoe * 365 + yoe \div 4 - yoe \div 100 + doy
    IN  era * 146097 + doe - 719468

\* NaiveDate::pred()
pred(nd) == nd - 1

\* NaiveDate::and_hms(h, mi, s), then DateTime::<Utc>::from_utc(.., Utc).timestamp()
and_hms(nd, h, mi, s) == nd * 86400 + h * 3600 + mi * 60 + s

\* Duration::hours / days / weeks, in seconds
Duration_hours(n) == n * 3600

Duration_days(n) == n * 86400

Duration_weeks(n) == n * 7 * 86400

\* dur_fn with a month of 31 days
dur_fn_month31(rule, n) ==
    CASE rule = "hour_duration"  -> Duration_hours(n)
      [] rule = "day_duration"   -> Duration_days(n)
      [] rule = "week_duration"  -> Duration_weeks(n)
      [] rule = "month_duration" -> Duration_days(n * 31)
      [] rule = "year_duration"  -> Duration_days(n * 365)

\* dur_fn of the duration rule t (api.rs 169-176), applied to n
dur_fn(rule, n) ==
    CASE rule = "hour_duration"  -> Duration_hours(n)
      [] rule = "day_duration"   -> Duration_days(n)
      [] rule = "week_duration"  -> Duration_weeks(n)
      [] rule = "month_duration" -> Duration_days(n * 30)
      [] rule = "year_duration"  -> Duration_days(n * 365)

\* DateTime::checked_sub_signed(d), then timestamp()
checked_sub_signed(t, d) == t - d

\* the decimal digits of i64::MAX
I64_MAX == "9223372036854775807"

\* the digits of s behind its leading zeros
RECURSIVE Significant(_)
Significant(s) ==
    IF Len(s) > 1 /\ Char(s, 1) = "0" THEN Significant(SubSeq(s, 2, Len(s))) ELSE s

\* a > b, for strings of digits of one length
RECURSIVE DigitsGreater(_, _)
DigitsGreater(a, b) ==
    /\ Len(a) > 0
    /\ \/ DigitVal(Char(a, 1)) > DigitVal(Char(b, 1))
       \/ /\ Char(a, 1) = Char(b, 1)
          /\ DigitsGreater(SubSeq(a, 2, Len(a)), SubSeq(b, 2, Len(b)))

\* str::parse::<i64>() of a string of digits is Ok: the number is at most
\* i64::MAX
parse_i64_is_ok(s) ==
    LET g == Significant(s)
    IN  Len(g) < Len(I64_MAX) \/ (Len(g) = Len(I64_MAX) /\ ~DigitsGreater(g, I64_MAX))

\* NaiveDate::MIN, the first day chrono can represent (year -262144)
MIN_DATE == from_ymd(0 - 262144, 1, 1)

\* the whole days of dur_fn(rule, n)
dur_days(rule, n) ==
    CASE rule = "hour_duration"  -> n \div 24
      [] rule = "day_duration"   -> n
      [] rule = "week_duration"  -> n * 7
      [] rule = "month_duration" -> n * 30
      [] rule = "year_duration"  -> n * 365

\* the seconds of dur_fn(rule, n) beyond its whole days
dur_secs(rule, n) == IF rule = "hour_duration" THEN (n % 24) * 3600 ELSE 0

\* DateTime::checked_sub_signed(dur_fn(n)).is_some(): the day of the result is
\* a day chrono can represent
checked_sub_signed_is_some(t, rule, n) ==
    (t \div 86400) - dur_days(rule, n)
        - (IF t % 86400 < dur_secs(rule, n) THEN 1 ELSE 0) >= MIN_DATE

(***************************************************************************)
(* The inputs: filter expressions a caller may pass to process_filter.     *)
(***************************************************************************)
\* the years of the generated date literals: before and at the epoch, leap
\* and common years, and the last whole year of a 32-bit timestamp
Years == {"1969", "1970", "2000", "2019", "2020", "2037"}

\* every year, year-month and year-month-day literal over the bounds
DateLiterals ==
    Years
    \cup {y \o "-" \o Pad2(m) : y \in Years, m \in 1..MaxMonth}
    \cup {y \o "-" \o Pad2(m) \o "-" \o Pad2(d) : y \in Years, m \in 1..MaxMonth, d \in 1..MaxDay}

DurationLiterals == {DecNat(n) \o u : n \in 0..MaxAmount, u \in DOMAIN unit_suffix}

\* a date or duration, alone or behind a comparator
TimeTerms == {c \o t : c \in {"", ">", "<"}, t \in DateLiterals \cup DurationLiterals}

\* the terms the multi-term expressions are built from
Terms == {"foo", "bar", "!bar", "2019", ">2019-10", "<2019-10-05", "7d", ">2w"}

RECURSIVE Expressions(_)
Expressions(n) ==
    IF n = 1 THEN Terms
    ELSE {e \o " " \o o \o " " \o t : e \in Expressions(n - 1), o \in {"AND", "OR"}, t \in Terms}

\* strings outside the grammar
Malformed == {"", "tag(", "!", ">", "foo AND", "foo bar", "AND foo", "tag = foo", "2019-1", "d7-"}

Inputs == TimeTerms \cup UNION {Expressions(n) : n \in 1..MaxTerms} \cup Malformed

\* the readings of Local::now(), in seconds since the epoch
Nows == {1555200000, 1700000001}

(***************************************************************************)
(* State.                                                                  *)
(***************************************************************************)
VARIABLES
    input,            \* the argument of the call of process_filter
    self_filter,      \* ApiQuery::filter, an Option<String>
    pc,               \* "call", "loop", "returned" or "panicked"
    tokens,           \* expr.into_inner(), the Pairs the loop iterates over
    pos,              \* the index in tokens of the next token
    filter,           \* the local String the loop builds
    curr_comparator,  \* the local Option<Rule>
    now,              \* the last reading of Local::now()
    self_other,       \* the other fields of the ApiQuery: query, sort, facets_distribution, limit
    prev_input,       \* the argument of the caller's previous call, an Option<String>
    other,            \* a second call of process_filter, on another ApiQuery, in another thread
    app               \* the TerminalApp of the interactive front-end

vars == <<input, self_filter, pc, tokens, pos, filter, curr_comparator, now,
          self_other, prev_input, other, app>>

\* what no step of process_filter on this ApiQuery touches
aux == <<self_other, prev_input, other, app>>

\* ApiQuery::new() (api.rs 34-40), with q.query = Some(query_input) (query.rs 14)
ApiQuery_new ==
    [query |-> <<"q">>, sort |-> <<"date:desc">>, facets_distribution |-> << >>, limit |-> 10000]

\* the state of a call of process_filter that has not begun
NotStarted(in) ==
    [input |-> in, self_filter |-> << >>, pc |-> "call", tokens |-> << >>, pos |-> 1,
     filter |-> "", curr_comparator |-> << >>, now |-> 0]

\* interactive[app.inp_idx + 1].x: the input boxes lie inside two layouts of
\* margin 1 (interactive.rs 204, 211)
AreaX == 2

\* TerminalApp::default() (interactive.rs 127-142), drawn once; status and
\* panic_at say whether query() runs, has left its loop or has panicked, and where
TerminalApp_default ==
    [query_input |-> "", filter_input |-> "", output |-> "", matches |-> << >>,
     selected_state |-> << >>, error |-> "", inp_idx |-> 0, inp_widths |-> <<0, 0>>,
     cursor_x |-> AreaX + 1, status |-> "running", panic_at |-> ""]

\* q = ApiQuery::new() (filter: None), then q.process_filter(filter_input)
Init ==
    /\ input \in Inputs
    /\ self_filter = << >>
    /\ pc = "call"
    /\ tokens = << >>
    /\ pos = 1
    /\ filter = ""
    /\ curr_comparator = << >>
    /\ now = 0
    /\ self_other = ApiQuery_new
    /\ prev_input = << >>
    /\ other = NotStarted("")
    /\ app = TerminalApp_default

token == tokens[pos]

AtToken(rule) == pc = "loop" /\ pos <= Len(tokens) /\ token.rule = rule

\* UnicodeWidthStr::width of a string of ASCII characters
width(s) == Len(s)

(***************************************************************************)
(* process_filter, one action per arm of the loop.                         *)
(***************************************************************************)
\* Call with the filter cleared where the input does not parse
Call_clears_filter_on_err ==
    /\ pc = "call"
    /\ LET parsed == Filter_parse(input)
       IN  IF parsed.ok
           THEN /\ pc' = "loop"
                /\ tokens' = parsed.pairs[1].inner
                /\ self_filter' = self_filter
           ELSE /\ pc' = "returned"
                /\ tokens' = << >>
                /\ self_filter' = << >>
    /\ pos' = 1
    /\ filter' = ""
    /\ curr_comparator' = << >>
    /\ UNCHANGED <<input, now>>
    /\ UNCHANGED aux

\* api.rs 44-53: parse; on Err return, else start the loop over the tokens
Call ==
    /\ pc = "call"
    /\ LET parsed == Filter_parse(input)
       IN  IF parsed.ok
           THEN /\ pc' = "loop"
                /\ tokens' = parsed.pairs[1].inner
           ELSE /\ pc' = "returned"
                /\ tokens' = << >>
    /\ pos' = 1
    /\ filter' = ""
    /\ curr_comparator' = << >>
    /\ UNCHANGED <<input, self_filter, now>>
    /\ UNCHANGED aux

\* the arms of match p.as_rule(): every other rule is unreachable!()
TopLevelArms == {"comparator", "date", "duration", "tag", "not_tag", "operator", "EOI"}

\* the arms of the match on the inner rule of a comparator and on curr_comparator
ComparatorArms == {"gt", "lt"}

\* the arms of the match on the inner rule of a date
DateArms == {"year_month_day", "year_month", "year"}

\* the number of inner captures each date arm unwraps
DateCaptures == [year_month_day |-> 3, year_month |-> 2, year |-> 0]

\* the arms of dur_fn with the week arm forgotten
DurationArms_without_week ==
    {"hour_duration", "day_duration", "month_duration", "year_duration"}

\* the arms of the match that chooses dur_fn
DurationArms ==
    {"hour_duration", "day_duration", "week_duration", "month_duration", "year_duration"}

\* the arms of the match on the inner rule of an operator
OperatorArms == {"and", "or"}

\* the loop has an arm for the token tok and for the inner tokens it inspects,
\* and every inner capture it unwraps is there
Handled(tok) ==
    /\ tok.rule \in TopLevelArms
    /\ tok.rule = "comparator"
         => Len(tok.inner) >= 1 /\ tok.inner[1].rule \in ComparatorArms
    /\ tok.rule = "date"
         => \A k \in 1..Len(tok.inner) :
              /\ tok.inner[k].rule \in DateArms
              /\ Len(tok.inner[k].inner) >= DateCaptures[tok.inner[k].rule]
    /\ tok.rule = "duration"
         => /\ Len(tok.inner) >= 1
            /\ tok.inner[1].rule \in DurationArms
            /\ Len(tok.inner[1].inner) >= 1
    /\ tok.rule = "operator"
         => Len(tok.inner) >= 1 /\ tok.inner[1].rule \in OperatorArms

\* Comparator with curr_comparator a static that every call shares
Comparator_writes_shared ==
    /\ AtToken("comparator")
    /\ curr_comparator' = <<token.inner[1].rule>>
    /\ pos' = pos + 1
    /\ other' = [other EXCEPT !.curr_comparator = <<token.inner[1].rule>>]
    /\ UNCHANGED <<input, self_filter, pc, tokens, filter, now>>
    /\ UNCHANGED <<self_other, prev_input, app>>

\* Comparator that keeps a comparator already pending
Comparator_first_wins ==
    /\ AtToken("comparator")
    /\ curr_comparator' = IF curr_comparator = << >> THEN <<token.inner[1].rule>>
                          ELSE curr_comparator
    /\ pos' = pos + 1
    /\ UNCHANGED <<input, self_filter, pc, tokens, filter, now>>
    /\ UNCHANGED aux

\* api.rs 58-62
Comparator ==
    /\ AtToken("comparator")
    /\ curr_comparator' = <<token.inner[1].rule>>
    /\ pos' = pos + 1
    /\ UNCHANGED <<input, self_filter, pc, tokens, filter, now>>
    /\ UNCHANGED aux

\* a panic of NaiveDate::from_ymd
Panic == [ok |-> FALSE, start |-> 0, end |-> 0]

\* resolve with the roll-over of December left in year y
resolve_december_in_year(d) ==
    CASE d.rule = "year_month_day" ->
           LET y  == parse(d.inner[1].str)
               m  == parse(d.inner[2].str)
               dd == parse(d.inner[3].str)
           IN  IF ~valid_ymd(y, m, dd) THEN Panic
               ELSE [ok    |-> TRUE,
                     start |-> and_hms(from_ymd(y, m, dd), 0, 0, 0),
                     end   |-> and_hms(from_ymd(y, m, dd), 23, 59, 59)]
      [] d.rule = "year_month" ->
           LET y == parse(d.inner[1].str)
               m == parse(d.inner[2].str)
           IN  IF ~valid_ymd(y, m, 1) THEN Panic
               ELSE [ok    |-> TRUE,
                     start |-> and_hms(from_ymd(y, m, 1), 0, 0, 0),
                     end   |-> and_hms(pred(IF m = 12 THEN from_ymd(y, 1, 1)
                                                      ELSE from_ymd(y, m + 1, 1)),
                                       23, 59, 59)]
      [] d.rule = "year" ->
           LET y == parse(d.str)
           IN  [ok    |-> TRUE,
                start |-> and_hms(from_ymd(y, 1, 1), 0, 0, 0),
                end   |-> and_hms(from_ymd(y, 12, 31), 23, 59, 59)]

\* api.rs 70-80, 101-115, 135-143: the instants a date literal resolves to;
\* NaiveDate::from_ymd panics on a date that is not in the calendar
resolve(d) ==
    CASE d.rule = "year_month_day" ->
           LET y  == parse(d.inner[1].str)
               m  == parse(d.inner[2].str)
               dd == parse(d.inner[3].str)
           IN  IF ~valid_ymd(y, m, dd) THEN Panic
               ELSE [ok    |-> TRUE,
                     start |-> and_hms(from_ymd(y, m, dd), 0, 0, 0),
                     end   |-> and_hms(from_ymd(y, m, dd), 23, 59, 59)]
      [] d.rule = "year_month" ->
           LET y == parse(d.inner[1].str)
               m == parse(d.inner[2].str)
           IN  IF ~valid_ymd(y, m, 1) THEN Panic
               ELSE [ok    |-> TRUE,
                     start |-> and_hms(from_ymd(y, m, 1), 0, 0, 0),
                     end   |-> and_hms(pred(IF m = 12 THEN from_ymd(y + 1, 1, 1)
                                                      ELSE from_ymd(y, m + 1, 1)),
                                       23, 59, 59)]
      [] d.rule = "year" ->
           LET y == parse(d.str)
           IN  [ok    |-> TRUE,
                start |-> and_hms(from_ymd(y, 1, 1), 0, 0, 0),
                end   |-> and_hms(from_ymd(y, 12, 31), 23, 59, 59)]

\* date_bound with the upper bound of the no-comparator arm left out
date_bound_lower_only(cmp, start, end) ==
    IF cmp = <<"gt">> THEN "> " \o Display(start) \o " "
    ELSE IF cmp = <<"lt">> THEN "< " \o Display(end) \o " "
    ELSE "> " \o Display(start)

\* date_bound with the lt arm bounded by the start of the range
date_bound_lt_start(cmp, start, end) ==
    IF cmp = <<"gt">> THEN "> " \o Display(start) \o " "
    ELSE IF cmp = <<"lt">> THEN "< " \o Display(start) \o " "
    ELSE "> " \o Display(start) \o " AND date < " \o Display(end)

\* api.rs 81-96 (and its copies 116-131, 144-159): what a date pushes after "date "
date_bound(cmp, start, end) ==
    IF cmp = <<"gt">> THEN "> " \o Display(start) \o " "
    ELSE IF cmp = <<"lt">> THEN "< " \o Display(end) \o " "
    ELSE "> " \o Display(start) \o " AND date < " \o Display(end)

\* Date without the reset of the pending comparator
Date_keeps_comparator ==
    /\ AtToken("date")
    /\ LET r == resolve(token.inner[1])
       IN  IF r.ok
           THEN /\ filter' = filter \o "date " \o date_bound(curr_comparator, r.start, r.end)
                /\ pos' = pos + 1
                /\ pc' = pc
           ELSE /\ filter' = filter \o "date "
                /\ pc' = "panicked"
                /\ UNCHANGED pos
    /\ UNCHANGED <<input, self_filter, tokens, now, curr_comparator>>
    /\ UNCHANGED aux

\* api.rs 63-165
Date ==
    /\ AtToken("date")
    /\ LET r == resolve(token.inner[1])
       IN  IF r.ok
           THEN /\ filter' = filter \o "date " \o date_bound(curr_comparator, r.start, r.end)
                /\ curr_comparator' = << >>
                /\ pos' = pos + 1
                /\ pc' = pc
           ELSE /\ filter' = filter \o "date "
                /\ pc' = "panicked"
                /\ UNCHANGED <<curr_comparator, pos>>
    /\ UNCHANGED <<input, self_filter, tokens, now>>
    /\ UNCHANGED aux

\* api.rs 185-192: what a duration pushes after "date "
duration_bound(cmp, ts) ==
    IF cmp = <<"gt">> THEN "> " \o Display(ts) \o " "
    ELSE IF cmp = <<"lt">> THEN "< " \o Display(ts) \o " "
    ELSE "> " \o Display(ts)

\* api.rs 166-194: the unwrap() of parse::<i64>() (api.rs 177-183) and of
\* checked_sub_signed (api.rs 184) panic on Err and on None
Duration ==
    /\ AtToken("duration")
    /\ \E t \in Nows :
         LET u == token.inner[1]
             a == u.inner[1].str
         IN  IF ~parse_i64_is_ok(a)
             THEN /\ filter' = filter \o "date "
                  /\ pc' = "panicked"
                  /\ UNCHANGED <<curr_comparator, pos, now>>
             ELSE /\ now' = t
                  /\ IF checked_sub_signed_is_some(t, u.rule, parse(a))
                     THEN LET ts == checked_sub_signed(t, dur_fn(u.rule, parse(a)))
                          IN  /\ filter' = filter \o "date "
                                               \o duration_bound(curr_comparator, ts)
                              /\ curr_comparator' = << >>
                              /\ pos' = pos + 1
                              /\ pc' = pc
                     ELSE /\ filter' = filter \o "date "
                          /\ pc' = "panicked"
                          /\ UNCHANGED <<curr_comparator, pos>>
    /\ UNCHANGED <<input, self_filter, tokens>>
    /\ UNCHANGED aux

\* Tag that returns from process_filter with what it has compiled so far
Tag_returns_early ==
    /\ AtToken("tag")
    /\ filter' = filter \o "tag = " \o token.str
    /\ self_filter' = <<filter'>>
    /\ pc' = "returned"
    /\ UNCHANGED <<input, tokens, pos, curr_comparator, now>>
    /\ UNCHANGED aux

\* Tag that pushes the identifier alone
Tag_pushes_identifier ==
    /\ AtToken("tag")
    /\ filter' = filter \o token.str
    /\ pos' = pos + 1
    /\ UNCHANGED <<input, self_filter, pc, tokens, curr_comparator, now>>
    /\ UNCHANGED aux

\* Tag that also resets the pending comparator
Tag_clears_comparator ==
    /\ AtToken("tag")
    /\ filter' = filter \o "tag = " \o token.str
    /\ curr_comparator' = << >>
    /\ pos' = pos + 1
    /\ UNCHANGED <<input, self_filter, pc, tokens, now>>
    /\ UNCHANGED aux

\* api.rs 195-198
Tag ==
    /\ AtToken("tag")
    /\ filter' = filter \o "tag = " \o token.str
    /\ pos' = pos + 1
    /\ UNCHANGED <<input, self_filter, pc, tokens, curr_comparator, now>>
    /\ UNCHANGED aux

\* api.rs 201-203: the text of every inner Pair, pushed in order
RECURSIVE push_inner(_)
push_inner(inner) ==
    IF inner = << >> THEN "" ELSE Head(inner).str \o push_inner(Tail(inner))

\* api.rs 199-204
NotTag ==
    /\ AtToken("not_tag")
    /\ filter' = filter \o "tag != " \o push_inner(token.inner)
    /\ pos' = pos + 1
    /\ UNCHANGED <<input, self_filter, pc, tokens, curr_comparator, now>>
    /\ UNCHANGED aux

\* api.rs 205-213
Operator ==
    /\ AtToken("operator")
    /\ filter' = filter \o (IF token.inner[1].rule = "and" THEN " AND " ELSE " OR ")
    /\ pos' = pos + 1
    /\ UNCHANGED <<input, self_filter, pc, tokens, curr_comparator, now>>
    /\ UNCHANGED aux

\* EOI with self.filter set whatever the width of the buffer
EOI_always_sets ==
    /\ AtToken("EOI")
    /\ self_filter' = <<filter>>
    /\ pc' = "returned"
    /\ UNCHANGED <<input, tokens, pos, filter, curr_comparator, now>>
    /\ UNCHANGED aux

\* EOI that unwraps the absence of a pending comparator
EOI_requires_no_pending ==
    /\ AtToken("EOI")
    /\ self_filter' = IF width(filter) > 0 /\ curr_comparator = << >>
                      THEN <<filter>> ELSE self_filter
    /\ pc' = IF curr_comparator = << >> THEN "returned" ELSE "panicked"
    /\ UNCHANGED <<input, tokens, pos, filter, curr_comparator, now>>
    /\ UNCHANGED aux

\* EOI that goes on with the tokens behind it, when there are any
EOI_continues ==
    /\ AtToken("EOI")
    /\ IF pos < Len(tokens)
       THEN pos' = pos + 1 /\ UNCHANGED <<self_filter, pc>>
       ELSE /\ self_filter' = IF width(filter) > 0 THEN <<filter>> ELSE self_filter
            /\ pc' = "returned"
            /\ pos' = pos
    /\ UNCHANGED <<input, tokens, filter, curr_comparator, now>>
    /\ UNCHANGED aux

\* api.rs 214 and 218-221: break out of the loop, set self.filter and return
EOI ==
    /\ AtToken("EOI")
    /\ self_filter' = IF width(filter) > 0 THEN <<filter>> ELSE self_filter
    /\ pc' = "returned"
    /\ UNCHANGED <<input, tokens, pos, filter, curr_comparator, now>>
    /\ UNCHANGED aux

Next ==
    \/ Call
    \/ Comparator
    \/ Date
    \/ Duration
    \/ Tag
    \/ NotTag
    \/ Operator
    \/ EOI

Spec == Init /\ [][Next]_vars

(***************************************************************************)
(* A caller that calls process_filter again and again on one ApiQuery.     *)
(***************************************************************************)
\* the arguments of the repeated calls: accepted expressions, strings outside
\* the grammar and a unit suffix behind letters
CallInputs ==
    {"foo", "!bar", "foo OR !bar", "2019", ">2019-10", "<2019-10-05", "7d", "<3m",
     "xd", "", "tag(", "!", ">", "foo AND", "1.5d"}

InitCalls ==
    /\ input \in CallInputs
    /\ self_filter = << >>
    /\ pc = "call"
    /\ tokens = << >>
    /\ pos = 1
    /\ filter = ""
    /\ curr_comparator = << >>
    /\ now = 0
    /\ self_other = ApiQuery_new
    /\ prev_input = << >>
    /\ other = NotStarted("")
    /\ app = TerminalApp_default

\* the caller calls q.process_filter(..) once more, on the same q (query.rs 16)
Again ==
    /\ pc = "returned"
    /\ input' \in CallInputs
    /\ prev_input' = <<input>>
    /\ pc' = "call"
    /\ UNCHANGED <<self_filter, tokens, pos, filter, curr_comparator, now, self_other, other, app>>

\* the caller passes the compiled filter itself as the next argument
Feedback ==
    /\ pc = "returned"
    /\ self_filter # << >>
    /\ input' = self_filter[1]
    /\ prev_input' = <<input>>
    /\ pc' = "call"
    /\ UNCHANGED <<self_filter, tokens, pos, filter, curr_comparator, now, self_other, other, app>>

NextCalls ==
    \/ Call
    \/ Comparator
    \/ Date
    \/ Duration
    \/ Tag
    \/ NotTag
    \/ Operator
    \/ EOI
    \/ Again
    \/ Feedback

SpecCalls == InitCalls /\ [][NextCalls]_vars

(***************************************************************************)
(* The loop of process_filter over the token sequences of the data model   *)
(* of spec.md section 3, whatever grammar produced them.                   *)
(***************************************************************************)
\* the largest number of tokens before EOI
MaxBody == 2

EOIPair == Pair("EOI", "", << >>)

TokenAlphabet ==
    {Pair("tag", "foo", << >>),
     Pair("not_tag", "!bar", <<Pair("tag", "bar", << >>)>>),
     comparatorPair(">"),
     comparatorPair("<"),
     datePair("2019-10"),
     durationPair("7d"),
     operatorPair("AND")}

ComparatorPairs == {comparatorPair(">"), comparatorPair("<")}

TimePairs == {datePair("2019-10"), durationPair("7d")}

\* every body of up to MaxBody tokens, two comparators before a date or a
\* duration, and a token behind EOI
TokenSeqs ==
    {b \o <<EOIPair>> : b \in UNION {[1..n -> TokenAlphabet] : n \in 0..MaxBody}}
        \cup {<<c1, c2, t, EOIPair>> : c1 \in ComparatorPairs, c2 \in ComparatorPairs,
                                        t \in TimePairs}
        \cup {<<a, EOIPair, b>> : a \in TokenAlphabet, b \in TokenAlphabet}

InitTokens ==
    /\ input = ""
    /\ self_filter = << >>
    /\ pc = "call"
    /\ tokens = << >>
    /\ pos = 1
    /\ filter = ""
    /\ curr_comparator = << >>
    /\ now = 0
    /\ self_other = ApiQuery_new
    /\ prev_input = << >>
    /\ other = NotStarted("")
    /\ app = TerminalApp_default

\* api.rs 48-54: the parse succeeded with some token sequence; start the loop
CallTokens ==
    /\ pc = "call"
    /\ tokens' \in TokenSeqs
    /\ pc' = "loop"
    /\ pos' = 1
    /\ filter' = ""
    /\ curr_comparator' = << >>
    /\ UNCHANGED <<input, self_filter, now>>
    /\ UNCHANGED aux

\* the caller calls process_filter once more, on the same ApiQuery
AgainTokens ==
    /\ pc = "returned"
    /\ pc' = "call"
    /\ UNCHANGED <<input, self_filter, tokens, pos, filter, curr_comparator, now>>
    /\ UNCHANGED aux

NextTokens ==
    \/ CallTokens
    \/ Comparator
    \/ Date
    \/ Duration
    \/ Tag
    \/ NotTag
    \/ Operator
    \/ EOI
    \/ AgainTokens

SpecTokens == InitTokens /\ [][NextTokens]_vars

(***************************************************************************)
(* One call on a duration literal, with amounts up to and past what i64    *)
(* and chrono's dates can hold.                                            *)
(***************************************************************************)
Amounts == {"0", "1", "12", "00000000000000000000012"}

AmountInputs ==
    {c \o l : c \in {"", ">", "<"},
              l \in {n \o u : n \in Amounts, u \in DOMAIN unit_suffix}
                      \cup {"300000h", "300000y", "1000000y",
                            "99999999999999999999h", "99999999999999999999d"}}

InitAmounts ==
    /\ input \in AmountInputs
    /\ self_filter = << >>
    /\ pc = "call"
    /\ tokens = << >>
    /\ pos = 1
    /\ filter = ""
    /\ curr_comparator = << >>
    /\ now = 0
    /\ self_other = ApiQuery_new
    /\ prev_input = << >>
    /\ other = NotStarted("")
    /\ app = TerminalApp_default

NextAmounts ==
    \/ Call
    \/ Comparator
    \/ Duration
    \/ EOI

SpecAmounts == InitAmounts /\ [][NextAmounts]_vars

(***************************************************************************)
(* Two calls of process_filter on two threads, each on an ApiQuery and an  *)
(* input of its own.  The variables input .. now are the call of the       *)
(* thread that runs; other is the call of the thread that waits.           *)
(***************************************************************************)
ConcInputs == {"foo", "2019", ">2019-10", "<7d AND !bar", "tag("}

\* the call of the running thread: its &mut self, its argument and its locals
Running ==
    [input |-> input, self_filter |-> self_filter, pc |-> pc, tokens |-> tokens,
     pos |-> pos, filter |-> filter, curr_comparator |-> curr_comparator, now |-> now]

InitThreads ==
    /\ input \in ConcInputs
    /\ self_filter = << >>
    /\ pc = "call"
    /\ tokens = << >>
    /\ pos = 1
    /\ filter = ""
    /\ curr_comparator = << >>
    /\ now = 0
    /\ self_other = ApiQuery_new
    /\ prev_input = << >>
    /\ \E in \in ConcInputs : other = NotStarted(in)
    /\ app = TerminalApp_default

\* the scheduler takes the running thread off the processor between two of
\* its steps and resumes the other thread where it was
Switch ==
    /\ other.pc \in {"call", "loop"}
    /\ other' = Running
    /\ input' = other.input
    /\ self_filter' = other.self_filter
    /\ pc' = other.pc
    /\ tokens' = other.tokens
    /\ pos' = other.pos
    /\ filter' = other.filter
    /\ curr_comparator' = other.curr_comparator
    /\ now' = other.now
    /\ UNCHANGED <<self_other, prev_input, app>>

NextThreads ==
    \/ Call
    \/ Comparator
    \/ Date
    \/ Duration
    \/ Tag
    \/ NotTag
    \/ Operator
    \/ EOI
    \/ Switch

SpecThreads == InitThreads /\ [][NextThreads]_vars

(***************************************************************************)
(* The interactive front-end (interactive.rs): one step per key event,     *)
(* which runs the arm of the key, the request to the server, the handling  *)
(* of the response and the next draw.                                      *)
(***************************************************************************)
\* the most characters typed into the two input boxes together
MaxInput == 2

InputChars == {"a"}

\* the documents the server knows, in the order it returns them
Docs == <<"doc1", "doc2">>

\* resp.hits
HitLists == {SubSeq(Docs, 1, n) : n \in 0..Len(Docs)}

\* the outcome of the request: no usable response, or the hits
Responses == {[ok |-> FALSE, hits |-> << >>]} \cup {[ok |-> TRUE, hits |-> h] : h \in HitLists}

\* overflow checks on (debug) or off (release): an overflowing + or - panics
\* or wraps
Builds == {"debug", "release"}

\* n as u16, of an i32
as_u16(n) == n % 65536

panic(a, at) == [a EXCEPT !.status = "panicked", !.panic_at = at]

\* the box the keys go to: inp_idx as an index from 1
box(a) == a.inp_idx + 1

\* interactive.rs 353-358
switch_input(a) == [a EXCEPT !.inp_idx = IF a.inp_idx = 1 THEN 0 ELSE 1]

\* interactive.rs 359-366
push_char(a, c) ==
    [a EXCEPT !.query_input = IF a.inp_idx = 0 THEN @ \o c ELSE @,
              !.filter_input = IF a.inp_idx = 0 THEN @ ELSE @ \o c,
              !.inp_widths[box(a)] = @ + 1]

\* String::pop()
pop(str) == IF Len(str) = 0 THEN str ELSE SubSeq(str, 1, Len(str) - 1)

\* interactive.rs 367-374
backspace(a) ==
    [a EXCEPT !.query_input = IF a.inp_idx = 0 THEN pop(@) ELSE @,
              !.filter_input = IF a.inp_idx = 0 THEN @ ELSE pop(@),
              !.inp_widths[box(a)] = @ - 1]

\* interactive.rs 98-110: matches.len() - 1 on usize (a wrapped usize::MAX is
\* above every index)
next(a, build) ==
    IF a.selected_state = << >> THEN [a EXCEPT !.selected_state = <<0>>]
    ELSE IF Len(a.matches) = 0
    THEN (IF build = "debug" THEN panic(a, "next")
          ELSE [a EXCEPT !.selected_state = <<a.selected_state[1] + 1>>])
    ELSE [a EXCEPT !.selected_state =
                     <<IF a.selected_state[1] >= Len(a.matches) - 1 THEN 0
                       ELSE a.selected_state[1] + 1>>]

\* interactive.rs 112-124: a wrapped usize::MAX is written 0 - 1
previous(a, build) ==
    IF a.selected_state = << >> THEN [a EXCEPT !.selected_state = <<0>>]
    ELSE IF a.selected_state[1] = 0
    THEN (IF Len(a.matches) = 0 /\ build = "debug" THEN panic(a, "previous")
          ELSE [a EXCEPT !.selected_state = <<Len(a.matches) - 1>>])
    ELSE [a EXCEPT !.selected_state = <<a.selected_state[1] - 1>>]

\* interactive.rs 91-96, called as app.output = app.get_selected_contents()
get_selected_contents(a) ==
    IF a.status # "running" THEN a
    ELSE IF a.selected_state = << >> THEN [a EXCEPT !.output = ""]
    ELSE IF a.selected_state[1] \in 0..(Len(a.matches) - 1)
    THEN [a EXCEPT !.output = a.matches[a.selected_state[1] + 1]]
    ELSE panic(a, "get_selected_contents")

\* interactive.rs 385-438: the request and what its outcome does to the app
respond(a, r) ==
    IF r.ok THEN [a EXCEPT !.matches = r.hits, !.error = ""]
    ELSE [a EXCEPT !.error = "Request failed"]

\* interactive.rs 278-283: f.set_cursor(x + 1 + inp_widths[inp_idx] as u16, ..)
draw(a, build) ==
    LET x == AreaX + 1 + as_u16(a.inp_widths[box(a)])
    IN  IF x <= 65535 THEN [a EXCEPT !.cursor_x = x]
        ELSE IF build = "debug" THEN panic(a, "set_cursor")
        ELSE [a EXCEPT !.cursor_x = x % 65536]

\* the rest of the iteration behind the arm of the key, and the next draw
Iterations(a, build) ==
    IF a.status # "running" THEN {a} ELSE {draw(respond(a, r), build) : r \in Responses}

compiler == <<input, self_filter, pc, tokens, pos, filter, curr_comparator, now,
              self_other, prev_input, other>>

InitTui ==
    /\ input = ""
    /\ self_filter = << >>
    /\ pc = "call"
    /\ tokens = << >>
    /\ pos = 1
    /\ filter = ""
    /\ curr_comparator = << >>
    /\ now = 0
    /\ self_other = ApiQuery_new
    /\ prev_input = << >>
    /\ other = NotStarted("")
    /\ app = TerminalApp_default

\* Key::Char('\n') and Key::Ctrl('c') (interactive.rs 344-352): break
KeyQuit ==
    /\ app.status = "running"
    /\ app' = [app EXCEPT !.status = "exited"]
    /\ UNCHANGED compiler

\* Key::Left | Key::Right | Key::Char('\t')
KeySwitch ==
    /\ app.status = "running"
    /\ \E build \in Builds : app' \in Iterations(switch_input(app), build)
    /\ UNCHANGED compiler

\* Key::Char(c)
KeyChar ==
    /\ app.status = "running"
    /\ Len(app.query_input) + Len(app.filter_input) < MaxInput
    /\ \E c \in InputChars, build \in Builds : app' \in Iterations(push_char(app, c), build)
    /\ UNCHANGED compiler

\* Key::Backspace
KeyBackspace ==
    /\ app.status = "running"
    /\ app.inp_widths[box(app)] > 0 - MaxInput
    /\ \E build \in Builds : app' \in Iterations(backspace(app), build)
    /\ UNCHANGED compiler

\* Key::Down | Key::Ctrl('n')
KeyDown ==
    /\ app.status = "running"
    /\ \E build \in Builds :
         app' \in Iterations(get_selected_contents(next(app, build)), build)
    /\ UNCHANGED compiler

\* Key::Up | Key::Ctrl('p')
KeyUp ==
    /\ app.status = "running"
    /\ \E build \in Builds :
         app' \in Iterations(get_selected_contents(previous(app, build)), build)
    /\ UNCHANGED compiler

\* any other key: the arm _ => {}
KeyOther ==
    /\ app.status = "running"
    /\ \E build \in Builds : app' \in Iterations(app, build)
    /\ UNCHANGED compiler

NextTui ==
    \/ KeyQuit
    \/ KeySwitch
    \/ KeyChar
    \/ KeyBackspace
    \/ KeyDown
    \/ KeyUp
    \/ KeyOther

SpecTui == InitTui /\ [][NextTui]_vars

(***************************************************************************)
(* The calendar and the units the claims speak of, counted from the epoch  *)
(* day by day.                                                             *)
(***************************************************************************)
CalLeap(y) == y % 4 = 0 /\ (y % 100 # 0 \/ y % 400 = 0)

CalYearLen(y) == IF CalLeap(y) THEN 366 ELSE 365

CalMonthLen(y, m) ==
    IF m = 2 /\ CalLeap(y) THEN 29
    ELSE <<31, 28, 31, 30, 31, 30, 31, 31, 30, 31, 30, 31>>[m]

\* days from 1970-01-01 to the first day of year y
RECURSIVE CalDaysToYear(_)
CalDaysToYear(y) ==
    IF y = 1970 THEN 0
    ELSE IF y > 1970 THEN CalDaysToYear(y - 1) + CalYearLen(y - 1)
    ELSE CalDaysToYear(y + 1) - CalYearLen(y)

\* days from the first day of year y to the first day of its month m
RECURSIVE CalDaysToMonth(_, _)
CalDaysToMonth(y, m) ==
    IF m = 1 THEN 0 ELSE CalDaysToMonth(y, m - 1) + CalMonthLen(y, m - 1)

\* epoch seconds of y-m-d T h:mi:s Z
Epoch(y, m, d, h, mi, s) ==
    (CalDaysToYear(y) + CalDaysToMonth(y, m) + d - 1) * 86400 + h * 3600 + mi * 60 + s

LitYear(w) == parse(SubSeq(w, 1, 4))

LitMonth(w) == parse(SubSeq(w, 6, 7))

LitDay(w) == parse(SubSeq(w, 9, 10))

\* the date literal w names a day, a month or a year of the calendar
InCalendar(w) ==
    /\ Len(w) >= 7 => LitMonth(w) \in 1..12
    /\ Len(w) = 10 => LitDay(w) \in 1..CalMonthLen(LitYear(w), LitMonth(w))

\* the first second of the range of the date literal w
FirstSecond(w) ==
    Epoch(LitYear(w), IF Len(w) >= 7 THEN LitMonth(w) ELSE 1,
          IF Len(w) = 10 THEN LitDay(w) ELSE 1, 0, 0, 0)

\* the last second of the range of the date literal w
LastSecond(w) ==
    LET y == LitYear(w)
        m == IF Len(w) >= 7 THEN LitMonth(w) ELSE 12
        d == IF Len(w) = 10 THEN LitDay(w) ELSE CalMonthLen(y, m)
    IN  Epoch(y, m, d, 23, 59, 59)

\* len(u), the seconds of one unit
UnitLen(u) ==
    CASE u = "h" -> 3600
      [] u = "d" -> 86400
      [] u = "w" -> 7 * 86400
      [] u = "m" -> 30 * 86400
      [] u = "y" -> 365 * 86400

\* the threshold of the duration literal w evaluated at time t
Threshold(w, t) == t - parse(SubSeq(w, 1, Len(w) - 1)) * UnitLen(Char(w, Len(w)))

\* what the step from this state to the next appended to the buffer
Pushed == SubSeq(filter', Len(filter) + 1, Len(filter'))

Appends == Len(filter') >= Len(filter) /\ SubSeq(filter', 1, Len(filter)) = filter

\* the indices of the words of ws that are a bound's operator
BoundOps(ws) == {i \in 1..Len(ws) : ws[i] \in {">", "<"}}

\* the text holds exactly one bound, op value, on the field date
OneBound(text, op, value) ==
    LET ws == Words(text)
    IN  /\ Cardinality(BoundOps(ws)) = 1
        /\ ws = <<"date", op, Display(value)>>

\* call of process_filter returned with the filter set to s
Compiled(s) == pc = "returned" /\ self_filter = <<s>>

\* the input is one term: tokens holds it (and its comparator) and EOI
OneTerm(rule) ==
    /\ pc = "returned"
    /\ Len(tokens) >= 2
    /\ tokens[Len(tokens) - 1].rule = rule
    /\ \A i \in 1..(Len(tokens) - 2) : tokens[i].rule = "comparator"

(***************************************************************************)
(* The claims.                                                             *)
(***************************************************************************)
\* C1: for every input that is a single tag identifier name, process_filter
\* sets the filter to exactly "tags = " followed by name.
C1_SingleTagCompilesToTagsEq ==
    OneTerm("tag") => self_filter = <<"tags = " \o input>>

\* C2: for every input that is a single negated tag !name, process_filter sets
\* the filter to exactly "tags != " followed by the concatenation of the inner
\* captures of the negated-tag rule, without the "!".
C2_SingleNotTagCompilesToTagsNe ==
    OneTerm("not_tag") => self_filter = <<"tags != " \o SubSeq(input, 2, Len(input))>>

\* the translation of the tag and negated-tag terms and the operators of an
\* accepted expression, word by word
RECURSIVE JoinTags(_)
JoinTags(ws) ==
    IF ws = << >> THEN ""
    ELSE LET w == Head(ws)
         IN  (IF operator(w) THEN " " \o w \o " "
              ELSE IF Char(w, 1) = "!" THEN "tags != " \o SubSeq(w, 2, Len(w))
              ELSE "tags = " \o w) \o JoinTags(Tail(ws))

OnlyTags == \A i \in 1..Len(tokens) : tokens[i].rule \in {"tag", "not_tag", "operator", "EOI"}

\* C3: the output of an accepted expression is the concatenation, in source
\* order, of the translation of each term, with " AND " / " OR " between them:
\* "foo AND bar" compiles to "tags = foo AND tags = bar" and "foo OR !bar" to
\* "tags = foo OR tags != bar"; stated for the expressions of tags and negated tags.
C3_ExpressionIsJoinOfTerms ==
    (pc = "returned" /\ Len(tokens) >= 4 /\ OnlyTags) => self_filter = <<JoinTags(Words(input))>>

\* C4: a date literal of any granularity that no comparator precedes makes the
\* compiler emit exactly "date > {start} AND date < {end}", start and end the
\* first and last second of the literal's range, and start <= end.
C4_DateWithoutComparatorEmitsBothBounds ==
    [][(AtToken("date") /\ curr_comparator = << >> /\ InCalendar(token.str))
        => /\ pc' = "loop"
           /\ filter' = filter \o "date > " \o Display(FirstSecond(token.str))
                               \o " AND date < " \o Display(LastSecond(token.str))
           /\ FirstSecond(token.str) <= LastSecond(token.str)]_vars

\* "2019" alone compiled to both bounds of the year 2019
C4_Witness == input = "2019" /\ Compiled("date > 1546300800 AND date < 1577836799")

\* C5: an input of a comparator and a date literal compiles to exactly one atom
\* with no extra characters: ">" date yields "date > {start}" and "<" date
\* yields "date < {end}", with no leading or trailing whitespace.
C5_ComparatorDateCompilesToOneAtom ==
    (OneTerm("date") /\ Len(tokens) = 3)
        => self_filter = <<IF Char(input, 1) = ">"
                           THEN "date > " \o Display(FirstSecond(SubSeq(input, 2, Len(input))))
                           ELSE "date < " \o Display(LastSecond(SubSeq(input, 2, Len(input))))>>

\* C6: a date literal that a pending comparator precedes emits exactly one
\* bound, the right one at every granularity: GreaterThan only a > bound at the
\* start of the literal's range, LessThan only a < bound at its end.
C6_ComparatorDateEmitsTheOneRightBound ==
    [][(AtToken("date") /\ curr_comparator # << >> /\ InCalendar(token.str))
        => /\ pc' = "loop"
           /\ Appends
           /\ IF curr_comparator = <<"gt">>
              THEN OneBound(Pushed, ">", FirstSecond(token.str))
              ELSE OneBound(Pushed, "<", LastSecond(token.str))]_vars

\* "<2019-10" alone compiled to the one bound at the end of October 2019
C6_Witness ==
    /\ input = "<2019-10"
    /\ pc = "returned"
    /\ self_filter # << >>
    /\ Words(self_filter[1]) = <<"date", "<", "1572566399">>

\* C7: the year-month literal Y-M, M in 1..12, resolves to start = the first
\* day of M at 00:00:00 and end = the last calendar day of that month at
\* 23:59:59 (for M = 12, Y-12-31T23:59:59Z), and end - start + 1 is a whole
\* number of days.
C7_YearMonthResolvesToItsCalendarMonth ==
    (AtToken("date") /\ token.inner[1].rule = "year_month" /\ LitMonth(token.str) \in 1..12)
        => LET r == resolve(token.inner[1])
               y == LitYear(token.str)
               m == LitMonth(token.str)
           IN  /\ r.ok
               /\ r.start = Epoch(y, m, 1, 0, 0, 0)
               /\ r.end = Epoch(y, m, CalMonthLen(y, m), 23, 59, 59)
               /\ (r.end - r.start + 1) % 86400 = 0
               /\ (r.end - r.start + 1) \div 86400 = CalMonthLen(y, m)

\* "2019-12" alone compiled to a range that ends with 2019-12-31T23:59:59Z
C7_Witness == input = "2019-12" /\ Compiled("date > 1575158400 AND date < 1577836799")

\* C8: a duration literal of amount n and unit u that no comparator precedes,
\* evaluated at time T, makes the compiler emit exactly "date > {T - n*len(u)}",
\* a lower bound only.
C8_DurationWithoutComparatorEmitsLowerBound ==
    [][(AtToken("duration") /\ curr_comparator = << >>)
        => filter' = filter \o "date > " \o Display(Threshold(token.str, now'))]_vars

\* "7d" alone, evaluated at 1700000001, compiled to the bound 7 * 86400 s earlier
C8_Witness == input = "7d" /\ now = 1700000001 /\ Compiled("date > 1699395201")

\* C9: a duration literal that a pending comparator precedes emits "date "
\* followed by exactly "> {threshold}" (GreaterThan) or "< {threshold}"
\* (LessThan), threshold = now - amount * unit_length, with no extra trailing
\* characters.
C9_ComparatorDurationEmitsExactBound ==
    (OneTerm("duration") /\ Len(tokens) = 3)
        => self_filter = <<"date " \o Char(input, 1) \o " "
                           \o Display(Threshold(SubSeq(input, 2, Len(input)), now))>>

\* the spelling of an atom's operator
AtomOps == {"=", "!=", ">", "<"}

\* atom (joiner atom)*: field op value, joined by " AND " / " OR ", with single
\* spaces and no space at either end
WellFormed(s) ==
    LET ws == Words(s)
    IN  /\ Len(s) > 0
        /\ Char(s, 1) # " "
        /\ Char(s, Len(s)) # " "
        /\ \A i \in 1..(Len(s) - 1) : ~(Char(s, i) = " " /\ Char(s, i + 1) = " ")
        /\ Len(ws) % 4 = 3
        /\ \A i \in 1..Len(ws) :
             CASE i % 4 = 0 -> operator(ws[i])
               [] i % 4 = 2 -> ws[i] \in AtomOps
               [] OTHER     -> ~operator(ws[i]) /\ ws[i] \notin AtomOps

\* C10: the compiled filter of every accepted input is a well-formed sequence
\* atom (joiner atom)*: it never starts or ends with a joiner or whitespace and
\* never holds two joiners in a row or two consecutive spaces.
C10_CompiledFilterIsWellFormed ==
    (pc = "returned" /\ self_filter # << >>) => WellFormed(self_filter[1])

\* C11: when the input does not parse against the grammar, process_filter
\* returns without error and leaves the filter of the query exactly as it was
\* (set or unset), and no other field of the query changes.
C11_ParseFailureLeavesQueryUntouched ==
    [][(pc = "call" /\ ~Filter_parse(input).ok)
        => /\ pc' = "returned"
           /\ self_filter' = self_filter
           /\ self_other' = self_other]_vars

\* "tag(" passed after "foo": the call returned and the filter of "foo" is kept
C11_Witness ==
    /\ pc = "returned"
    /\ input = "tag("
    /\ prev_input = <<"foo">>
    /\ self_filter = <<"tag = foo">>
    /\ self_other = ApiQuery_new

\* no token before the current one pushes text: all are comparators
NoEmittingTokenSoFar == \A i \in 1..(pos - 1) : tokens[i].rule = "comparator"

\* C12: when the token sequence holds no emitting token the compiled string is
\* empty and the filter is neither set nor overwritten; the filter is only ever
\* set to a non-empty string, so after any sequence of calls it is unset or the
\* non-empty compilation of the most recent call that compiled to one.
C12_FilterIsUnsetOrLastNonEmptyCompilation ==
    /\ [](self_filter = << >> \/ Len(self_filter[1]) > 0)
    /\ []((AtToken("EOI") /\ NoEmittingTokenSoFar) => filter = "")
    /\ [][AtToken("EOI")
           => self_filter' = IF filter = "" THEN self_filter ELSE <<filter>>]_vars
    /\ [][self_filter' # self_filter => (AtToken("EOI") /\ filter # "")]_vars

\* a lone comparator compiled after "foo": the filter of "foo" is kept
C12_Witness ==
    /\ pc = "returned"
    /\ tokens = <<comparatorPair(">"), EOIPair>>
    /\ filter = ""
    /\ self_filter = <<"tag = foo">>

\* the text the loop pushes for the word w of an accepted input when the clock
\* reads t in this word's arm
WordText(w, t) ==
    IF operator(w) THEN " " \o w \o " "
    ELSE IF comparator(Char(w, 1))
    THEN LET rest == SubSeq(w, 2, Len(w))
         IN  "date " \o Char(w, 1) \o " "
             \o Display(IF date(rest)
                        THEN (IF Char(w, 1) = ">" THEN FirstSecond(rest) ELSE LastSecond(rest))
                        ELSE Threshold(rest, t))
             \o " "
    ELSE IF date(w)
    THEN "date > " \o Display(FirstSecond(w)) \o " AND date < " \o Display(LastSecond(w))
    ELSE IF duration(w) THEN "date > " \o Display(Threshold(w, t))
    ELSE IF Char(w, 1) = "!" THEN "tag != " \o SubSeq(w, 2, Len(w))
    ELSE "tag = " \o w

\* the translation of the words ws from the i-th on, the clock reading ts[k]
\* in the arm of the k-th word
RECURSIVE Translation(_, _, _)
Translation(ws, ts, i) ==
    IF i > Len(ws) THEN "" ELSE WordText(ws[i], ts[i]) \o Translation(ws, ts, i + 1)

\* the filter is the translation of the whole of the accepted input in
Translates(in, f) ==
    \E ts \in [1..Len(Words(in)) -> Nows] : f = Translation(Words(in), ts, 1)

\* the inputs spec.md section 8 calls malformed: "tag(", an unterminated
\* negation, a unit suffix that no digits precede
C13_Malformed == {"tag(", "!", "xd"}

\* C13 as stated: malformed input - "tag(", "!" with no identifier, a unit
\* suffix preceded by non-digits - yields empty output.
C13_MalformedYieldsEmptyOutput ==
    (pc = "returned" /\ prev_input = << >> /\ input \in C13_Malformed)
        => self_filter = << >>

\* C13: the first call on a new query leaves the filter unset when the input
\* is not a sentence of the grammar ("tag(", "!", "1.5d"), and otherwise sets
\* it to the translation of the whole input, every word of it, never to a part
\* of it; a unit suffix behind letters ("xd") is an identifier and compiles to
\* a tag atom.
C13_OutputIsEmptyOrTheWholeTranslation ==
    (pc = "returned" /\ prev_input = << >>)
        => IF Filter_parse(input).ok
           THEN self_filter # << >> /\ Translates(input, self_filter[1])
           ELSE self_filter = << >>

\* "foo OR !bar" compiled whole, by a first call
C13_Witness ==
    /\ pc = "returned"
    /\ prev_input = << >>
    /\ input = "foo OR !bar"
    /\ self_filter = <<"tag = foo OR tag != bar">>

\* C14: at a date literal that passed the grammar but names no calendar date
\* (day 31 of a 30-day month, month 13, 2019-02-30) the compiler embeds a
\* diagnostic string into the filter and goes on to the remaining tokens; it
\* does not crash or abort the call.
C14_InvalidDateEmbedsDiagnosticAndContinues ==
    [][(AtToken("date") /\ ~InCalendar(token.str))
        => /\ pc' = "loop"
           /\ pos' = pos + 1
           /\ Appends
           /\ Len(Pushed) > Len("date ")]_vars

C16_CompiledFilterDoesNotParse ==
    /\ []((pc = "returned" /\ self_filter # << >>) => ~Filter_parse(self_filter[1]).ok)
    /\ [][Feedback => ~Filter_parse(input').ok]_vars
    /\ [][(pc = "call" /\ self_filter = <<input>>)
           => (pc' = "returned" /\ self_filter' = self_filter)]_vars

\* the filter compiled from "foo" was passed back in and is still the filter
C16_Witness ==
    /\ pc = "returned"
    /\ prev_input = <<"foo">>
    /\ input = "tag = foo"
    /\ self_filter = <<"tag = foo">>

\* C17: compilation is pure and deterministic: it reads no global state, so
\* compiling the same input twice yields the same output, and no pending
\* comparator or buffer content survives from one compilation into the next.
C17_CompilationIsDeterministic ==
    /\ [][pc = "call" => (filter' = "" /\ curr_comparator' = << >>)]_vars
    /\ [][(AtToken("EOI") /\ prev_input = <<input>>) => self_filter' = self_filter]_vars

\* the call st, once returned, has the result of the same call run alone
ResultAlone(st) ==
    st.pc = "returned"
        => IF Filter_parse(st.input).ok
           THEN st.self_filter # << >> /\ Translates(st.input, st.self_filter[1])
           ELSE st.self_filter = << >>

\* C18: two compilations that run concurrently on inputs and query objects of
\* their own each produce, under every interleaving of their steps, the result
\* they produce alone; a step of one leaves the pending comparator, the buffer
\* and the filter of the other as they are.
C18_ConcurrentCompilationsAreIndependent ==
    /\ [](ResultAlone(Running) /\ ResultAlone(other))
    /\ [](pc # "panicked" /\ other.pc # "panicked")
    /\ [][other' = other \/ (other' = Running /\ Running' = other)]_vars

\* "2019" compiled to both bounds while the ">" of ">2019-10" was pending on
\* the other thread
C18_Witness ==
    /\ input = "2019"
    /\ pc = "loop"
    /\ filter = "date > 1546300800 AND date < 1577836799"
    /\ other.input = ">2019-10"
    /\ other.pc = "loop"
    /\ other.curr_comparator = <<"gt">>

TimeRules == {"date", "duration"}

\* an earlier date or duration had a comparator and no comparator came since
FollowsQualified ==
    \E j \in 2..(pos - 1) :
        /\ tokens[j].rule \in TimeRules
        /\ tokens[j - 1].rule = "comparator"
        /\ \A k \in (j + 1)..(pos - 1) : tokens[k].rule # "comparator"

\* C19: the pending comparator is None right after every date or duration
\* token, so one comparator qualifies at most one term: a date or duration that
\* follows an already-qualified one with no new comparator in between is
\* compiled with the no-comparator default (both bounds for a date, the lower
\* bound for a duration).
C19_ComparatorQualifiesOneTermOnly ==
    /\ [][((AtToken("date") \/ AtToken("duration")) /\ pc' = "loop")
           => curr_comparator' = << >>]_vars
    /\ [][(AtToken("date") /\ FollowsQualified /\ InCalendar(token.str))
           => /\ curr_comparator = << >>
              /\ filter' = filter \o "date > " \o Display(FirstSecond(token.str))
                                  \o " AND date < " \o Display(LastSecond(token.str))]_vars
    /\ [][(AtToken("duration") /\ FollowsQualified)
           => /\ curr_comparator = << >>
              /\ filter' = filter \o "date > " \o Display(Threshold(token.str, now'))]_vars

\* in ">2019-10 AND 2019" the year after the qualified month got both bounds
C19_Witness ==
    /\ pc = "returned"
    /\ input = ">2019-10 AND 2019"
    /\ self_filter = <<"date > 1569888000  AND date > 1546300800 AND date < 1577836799">>

\* two comparator tokens come right before the current token
AfterTwoComparators ==
    pos > 2 /\ tokens[pos - 1].rule = "comparator" /\ tokens[pos - 2].rule = "comparator"

\* C20: at most one comparator is ever outstanding: a second comparator token
\* that arrives while the first is pending overwrites it, and the date or
\* duration that follows is compiled with the last comparator seen, for every
\* combination of the two kinds.
C20_LastComparatorWins ==
    /\ [](Len(curr_comparator) <= 1)
    /\ [][(AtToken("comparator") /\ curr_comparator # << >>)
           => curr_comparator' = <<IF token.str = ">" THEN "gt" ELSE "lt">>]_vars
    /\ [][(AtToken("date") /\ AfterTwoComparators)
           => /\ Appends
              /\ OneBound(Pushed, tokens[pos - 1].str,
                          IF tokens[pos - 1].str = ">" THEN FirstSecond(token.str)
                          ELSE LastSecond(token.str))]_vars
    /\ [][(AtToken("duration") /\ AfterTwoComparators)
           => /\ Appends
              /\ OneBound(Pushed, tokens[pos - 1].str, Threshold(token.str, now'))]_vars

\* ">" then "<" then 2019-10: the upper bound at the end of October 2019
C20_Witness ==
    /\ pc = "returned"
    /\ tokens = <<comparatorPair(">"), comparatorPair("<"), datePair("2019-10"), EOIPair>>
    /\ self_filter # << >>
    /\ Words(self_filter[1]) = <<"date", "<", "1572566399">>

\* the states of the pending comparator: Idle, ComparatorPending(gt | lt)
PendingStates == {<< >>, <<"gt">>, <<"lt">>}

\* the text s ends with the text e
EndsWith(s, e) == Len(s) >= Len(e) /\ SubSeq(s, Len(s) - Len(e) + 1, Len(s)) = e

\* C21: the pending comparator has exactly two transitions: a comparator token
\* sets it and appends nothing; a date or duration token clears it.  A tag, a
\* not_tag and an operator leave it unchanged and append only their own text,
\* so the compiler state is always Idle or ComparatorPending(gt | lt).
C21_PendingComparatorHasTwoTransitions ==
    /\ [](curr_comparator \in PendingStates)
    /\ [][curr_comparator' # curr_comparator
           => \/ AtToken("comparator") /\ curr_comparator' # << >> /\ filter' = filter
              \/ (AtToken("date") \/ AtToken("duration")) /\ curr_comparator' = << >>
              \/ pc = "call" /\ curr_comparator' = << >>]_vars
    /\ [][AtToken("tag")
           => curr_comparator' = curr_comparator /\ Appends /\ EndsWith(Pushed, token.str)]_vars
    /\ [][AtToken("not_tag")
           => /\ curr_comparator' = curr_comparator
              /\ Appends
              /\ EndsWith(Pushed, SubSeq(token.str, 2, Len(token.str)))]_vars
    /\ [][AtToken("operator")
           => curr_comparator' = curr_comparator /\ Appends /\ Words(Pushed) = <<token.str>>]_vars

\* ">" is still pending after the tag foo was compiled
C21_Witness ==
    /\ pc = "loop"
    /\ tokens = <<comparatorPair(">"), Pair("tag", "foo", << >>), EOIPair>>
    /\ pos = 3
    /\ curr_comparator = <<"gt">>
    /\ filter = "tag = foo"

\* what the token tok pushes when pend is pending and the clock reads t
TokenText(tok, pend, t) ==
    CASE tok.rule = "comparator" -> ""
      [] tok.rule = "date" ->
           "date " \o (IF pend = <<"gt">> THEN "> " \o Display(FirstSecond(tok.str)) \o " "
                       ELSE IF pend = <<"lt">> THEN "< " \o Display(LastSecond(tok.str)) \o " "
                       ELSE "> " \o Display(FirstSecond(tok.str))
                            \o " AND date < " \o Display(LastSecond(tok.str)))
      [] tok.rule = "duration" ->
           "date " \o (IF pend = <<"lt">> THEN "< " \o Display(Threshold(tok.str, t)) \o " "
                       ELSE IF pend = <<"gt">> THEN "> " \o Display(Threshold(tok.str, t)) \o " "
                       ELSE "> " \o Display(Threshold(tok.str, t)))
      [] tok.rule = "tag" -> "tag = " \o tok.str
      [] tok.rule = "not_tag" -> "tag != " \o SubSeq(tok.str, 2, Len(tok.str))
      [] tok.rule = "operator" -> " " \o tok.str \o " "
      [] OTHER -> ""

\* what is pending after the token tok
PendingAfter(tok, pend) ==
    IF tok.rule = "comparator" THEN <<IF tok.str = ">" THEN "gt" ELSE "lt">>
    ELSE IF tok.rule \in TimeRules THEN << >>
    ELSE pend

\* the compilation of the tokens ts[i..n], pend pending before ts[i] and the
\* clock reading rs[k] at ts[k]
RECURSIVE CompileTokens(_, _, _, _, _)
CompileTokens(ts, rs, i, n, pend) ==
    IF i > n THEN ""
    ELSE TokenText(ts[i], pend, rs[i])
             \o CompileTokens(ts, rs, i + 1, n, PendingAfter(ts[i], pend))

\* the index of the first EOI of ts
FirstEOI(ts) ==
    CHOOSE i \in 1..Len(ts) : ts[i].rule = "EOI" /\ \A j \in 1..(i - 1) : ts[j].rule # "EOI"

\* C22: compilation stops at the first EOI: the output is the compilation of
\* the tokens before the first EOI, and the tokens behind it, emitting or not,
\* never change the buffer or the pending comparator.
C22_CompilationStopsAtFirstEOI ==
    /\ [](pc = "loop" => \A j \in 1..(pos - 1) : tokens[j].rule # "EOI")
    /\ []((pc = "returned" /\ tokens # << >>)
            => /\ pos = FirstEOI(tokens)
               /\ \E rs \in [1..Len(tokens) -> Nows] :
                    filter = CompileTokens(tokens, rs, 1, pos - 1, << >>))
    /\ [][AtToken("EOI")
           => (pc' = "returned" /\ filter' = filter /\ curr_comparator' = curr_comparator)]_vars
    /\ [][pc = "returned" => (pc' = "call" /\ filter' = filter /\ self_filter' = self_filter
                               /\ curr_comparator' = curr_comparator)]_vars

\* the tag foo, EOI and the not_tag !bar behind it: only foo is compiled
C22_Witness ==
    /\ pc = "returned"
    /\ tokens = <<Pair("tag", "foo", << >>), EOIPair,
                  Pair("not_tag", "!bar", <<Pair("tag", "bar", << >>)>>)>>
    /\ pos = 2
    /\ self_filter = <<"tag = foo">>

C24_DurationNeverOverflowsOrAborts ==
    [][AtToken("duration")
        => /\ pc' = "loop"
           /\ Appends
           /\ \E op \in {">", "<"} : OneBound(Pushed, op, Threshold(token.str, now'))]_vars

\* C25: in the interactive front-end, after any sequence of key events, the
\* recorded width of each input box is the number of characters in the box and
\* is never negative (Backspace on an empty box leaves it at 0), so the cursor
\* column computed from it never wraps as an unsigned 16-bit value.
C25_WidthIsTheLengthOfTheBox ==
    /\ app.inp_widths[1] = Len(app.query_input)
    /\ app.inp_widths[2] = Len(app.filter_input)
    /\ \A i \in 1..2 : app.inp_widths[i] >= 0
    /\ app.panic_at # "set_cursor"
    /\ app.status = "running" => app.cursor_x = AreaX + 1 + app.inp_widths[box(app)]

\* C26: in the interactive front-end, after any interleaving of selection
\* moves and server responses that replace the match list, a selected index is
\* a valid index into the match list: next() and previous() never compute
\* len - 1 on an empty list and get_selected_contents never indexes past the
\* end.
C26_SelectedIndexIsValid ==
    /\ app.selected_state # << >> => app.selected_state[1] \in 0..(Len(app.matches) - 1)
    /\ app.panic_at \notin {"next", "previous", "get_selected_contents"}

====
